---- MODULE Spec2Model ----
(***************************************************************************)
(* A model of utils_node2vec.py: the windowed dataset (MyDataset,          *)
(* generate_dataset), the graph constructor (generate_graph) and the       *)
(* read_data pipeline with its two on-disk caches.                         *)
(*                                                                         *)
(* Python containers are 0-based, so tensors, matrices and lists are       *)
(* functions over 0 .. n-1.                                                *)
(***************************************************************************)
EXTENDS Integers, Sequences, FiniteSets, TLC

(***************************************************************************)
(* Bounds of the model.                                                    *)
(***************************************************************************)
\* largest number of time steps (rows) of the tensor
MaxT == 6
\* largest history length his_length
MaxH == 2
\* largest prediction length pred_length
MaxP == 2
\* ratios are the fractions k / RatioDen, in steps of a fifth or finer
RatioScale == 1
RatioDen == 5 * RatioScale
\* nodes and feature channels of the tensor handed to MyDataset
DsNodes == 2
DsFeat == 2
\* number of sensors (nodes) of the road network
NumNodes == 3
\* most cells of a distance matrix that hold a finite distance
MaxFinite == 2
\* most rows of an edge-list file after its header row
MaxRows == 2
\* the raw data file holds one of the profiles 0 .. NumData
NumData == 1
\* read_data runs started in one behaviour
MaxRuns == 3
\* `if num_nodes > 100`: the number of nodes sampled.  100 in the source,
\* scaled to the size of the model
SampleSize == 2

VARIABLES
    data,       \* the T x N x F tensor handed to MyDataset / generate_dataset
    his,        \* args.his_length
    pred,       \* args.pred_length
    ds,         \* the MyDataset objects, by slot: direct, train, valid, test
    gen,        \* the constructing call: its arguments and how it ended
    out,        \* the result of the last __len__ / __getitem__ call
    gDist,      \* generate_graph: the dist_matrix argument
    gSel,       \* generate_graph: the selected_nodes argument, in its order
    gOut,       \* generate_graph: the graph returned
    edgeFile,   \* the edge-list file (distance.csv) of the dataset
    dtwFile,    \* data/<name>_dtw_distance.npy
    spFile,     \* data/<name>_spatial_distance.npy
    rng,        \* what the random sources draw: the node sample, the embeddings
    callers,    \* the processes that call read_data; one caller runs one at a time
    run,        \* each read_data invocation: its place and its local variables
    hist        \* what happened to the cache files so far

dsVars == <<data, his, pred, ds, gen, out>>

ggVars == <<gDist, gSel, gOut>>

rdVars == <<edgeFile, dtwFile, spFile, rng, callers, run, hist>>

vars == <<data, his, pred, ds, gen, out, gDist, gSel, gOut,
          edgeFile, dtwFile, spFile, rng, callers, run, hist>>

-----------------------------------------------------------------------------
(***************************************************************************)
(* Python helpers.                                                         *)
(***************************************************************************)
Min(a, b) == IF a < b THEN a ELSE b

Max(a, b) == IF a > b THEN a ELSE b

\* `v in list`
InList(v, list) == \E k \in 1 .. Len(list) : list[k] = v

\* number of rows of a 0-based array (shape[0])
Rows(f) == Cardinality(DOMAIN f)

\* one bound of a slice a[lo:hi] over n rows: negative bounds count from the
\* end, and every bound is clamped into 0 .. n
SliceBound(i, n) == IF i < 0 THEN Max(i + n, 0) ELSE Min(i, n)

\* a[lo:hi] of a 0-based array: never an error, possibly empty
PySlice(a, lo, hi) ==
    LET n == Rows(a)
        l == SliceBound(lo, n)
        h == SliceBound(hi, n)
    IN  [i \in 0 .. (h - l - 1) |-> a[l + i]]

\* A float is modelled as its numerator over RatioDen.  int() truncates
\* towards zero.
PyInt(x) == IF x >= 0 THEN x \div RatioDen ELSE -((-x) \div RatioDen)

\* the float of an integer
ToFloat(i) == i * RatioDen

-----------------------------------------------------------------------------
(***************************************************************************)
(* The tensor.  Every cell holds a value that names its own position, so   *)
(* that a slice shows which rows, nodes and channels it was cut from.      *)
(***************************************************************************)
Cell(t, n, f) == (t * DsNodes + n) * DsFeat + f

Tensor(T) ==
    [t \in 0 .. T - 1 |-> [n \in 0 .. DsNodes - 1 |-> [f \in 0 .. DsFeat - 1 |-> Cell(t, n, f)]]]

(***************************************************************************)
(* class MyDataset                                                         *)
(***************************************************************************)
NoDs == [built |-> FALSE, data |-> << >>, his_length |-> 0, pred_length |-> 0]

\* __init__: split_start and split_end arrive as floats
MyDatasetInit(d, split_start, split_end, his_length, pred_length) ==
    [built |-> TRUE,
     data |-> PySlice(d, PyInt(split_start), PyInt(split_end)),
     his_length |-> his_length,
     pred_length |-> pred_length]

\* a __len__ that forgets the + 1
MyDatasetLen_NoPlusOne(self) == Rows(self.data) - self.his_length - self.pred_length

\* __len__: the method's own return value (it may be zero or negative)
MyDatasetLen(self) == Rows(self.data) - self.his_length - self.pred_length + 1

\* x of __getitem__: data[index : index + his_length].permute(1, 0, 2)
ItemX(self, index) ==
    LET s == PySlice(self.data, index, index + self.his_length)
    IN  [n \in 0 .. DsNodes - 1 |-> [h \in DOMAIN s |-> s[h][n]]]

\* y of __getitem__:
\* data[index + his_length : index + his_length + pred_length][:, :, 0].permute(1, 0)
ItemY(self, index) ==
    LET s == PySlice(self.data, index + self.his_length,
                     index + self.his_length + self.pred_length)
    IN  [n \in 0 .. DsNodes - 1 |-> [p \in DOMAIN s |-> s[p][n][0]]]

MyDatasetGetItem(self, index) == [x |-> ItemX(self, index), y |-> ItemY(self, index)]

(***************************************************************************)
(* generate_dataset                                                        *)
(***************************************************************************)
\* split arguments whose validation range ends at shape[0] * valid_ratio
SplitArgs_ValidNotOffset(T, train_ratio, valid_ratio) ==
    [train |-> <<ToFloat(0), T * train_ratio>>,
     valid |-> <<T * train_ratio, T * valid_ratio>>,
     test  |-> <<T * (train_ratio + valid_ratio), ToFloat(T)>>]

\* the (split_start, split_end) arguments of the three MyDataset calls, as
\* floats: shape[0] * ratio
SplitArgs(T, train_ratio, valid_ratio) ==
    [train |-> <<ToFloat(0), T * train_ratio>>,
     valid |-> <<T * train_ratio, T * (train_ratio + valid_ratio)>>,
     test  |-> <<T * (train_ratio + valid_ratio), ToFloat(T)>>]

\* DataLoader(dataset, shuffle=True) builds a RandomSampler, which asks for
\* len(dataset): a negative __len__ is a ValueError, and an empty dataset is
\* one too where the installed sampler wants a positive number of samples
\* (strict).
LoaderBuilt(self, strict) ==
    LET n == MyDatasetLen(self)
    IN  IF strict THEN n > 0 ELSE n >= 0

Slots == {"direct", "train", "valid", "test"}

GenSlots == {"train", "valid", "test"}

\* the log of the one constructing call: which call, its arguments, how it ended
NoGen == [call |-> "none", split_start |-> 0, split_end |-> 0,
          train_ratio |-> 0, valid_ratio |-> 0, status |-> "none"]

NoOut == [op |-> "none", slot |-> "direct", index |-> 0, len |-> 0, x |-> << >>, y |-> << >>]


-----------------------------------------------------------------------------
(***************************************************************************)
(* generate_graph                                                          *)
(***************************************************************************)
Nodes == 0 .. NumNodes - 1

\* float('inf'); every other distance of the model is a small positive number
Inf == 99

Weights == {1, 2}

\* nx.Graph(): a set of nodes and, for each undirected edge {i, j} (a
\* self-loop is {i}), its weight attribute
EmptyGraph == [nodes |-> {}, weight |-> << >>]

\* G.add_edge(i, j, weight=w): both ends become nodes; an edge that is
\* already there keeps its place and takes the new weight
AddEdge(G, i, j, w) ==
    [nodes |-> G.nodes \cup {i, j},
     weight |-> [e \in DOMAIN G.weight \cup {{i, j}} |->
                    IF e = {i, j} THEN w ELSE G.weight[e]]]

\* the body of the two loops for the pair (i, j), with no test of the distance
GraphStep_NoInfTest(G, dist_matrix, i, j) == AddEdge(G, i, j, dist_matrix[i][j])

\* the body of the two loops for the pair (i, j)
GraphStep(G, dist_matrix, i, j) ==
    IF dist_matrix[i][j] # Inf THEN AddEdge(G, i, j, dist_matrix[i][j]) ELSE G

\* for i in selected_nodes: for j in selected_nodes: ..., from the k-th pair on
RECURSIVE GraphLoop(_, _, _, _)
GraphLoop(G, dist_matrix, selected_nodes, k) ==
    LET n == Len(selected_nodes)
    IN  IF k >= n * n THEN G
        ELSE GraphLoop(GraphStep(G, dist_matrix, selected_nodes[(k \div n) + 1],
                                 selected_nodes[(k % n) + 1]),
                       dist_matrix, selected_nodes, k + 1)

generate_graph(num_nodes, dist_matrix, selected_nodes) ==
    GraphLoop(EmptyGraph, dist_matrix, selected_nodes, 0)

\* the nodes reachable from the set `seen` along edges of G
RECURSIVE Component(_, _)
Component(G, seen) ==
    LET more == {v \in G.nodes : \E u \in seen : {u, v} \in DOMAIN G.weight}
    IN  IF more \subseteq seen THEN seen ELSE Component(G, seen \cup more)

\* lists of distinct nodes of 0 .. n-1, in any order
NodeLists(n) ==
    UNION {{s \in [1 .. k -> 0 .. n - 1] : \A a, b \in 1 .. k : a # b => s[a] # s[b]} :
           k \in 0 .. n}

\* n x n matrices that are infinite but for at most MaxFinite cells
SparseMatrices(n) ==
    LET cells == (0 .. n - 1) \X (0 .. n - 1)
    IN  UNION {{[i \in 0 .. n - 1 |-> [j \in 0 .. n - 1 |->
                    IF <<i, j>> \in c THEN w[<<i, j>>] ELSE Inf]] : w \in [c -> Weights]} :
               c \in {x \in SUBSET cells : Cardinality(x) <= MaxFinite}}

NoGraph == [nodes |-> {-1}, weight |-> << >>]

GraphIdle == gDist = << >> /\ gSel = << >> /\ gOut = NoGraph

DatasetIdle ==
    /\ data = << >>
    /\ his = 0
    /\ pred = 0
    /\ ds = [s \in Slots |-> NoDs]
    /\ gen = NoGen
    /\ out = NoOut


-----------------------------------------------------------------------------
(***************************************************************************)
(* read_data: files                                                        *)
(***************************************************************************)
\* the two concurrent invocations the cache hazard is about
Procs == {1, 2}

\* A cache file is absent, or being written (np.save has opened it, so it
\* exists, but its content is not all there), or complete.
Absent == [state |-> "absent", m |-> << >>]

Partial == [state |-> "partial", m |-> << >>]

\* a save that never gets the whole matrix into the file
Complete_CutShort(m) == [state |-> "partial", m |-> << >>]

Complete(m) == [state |-> "complete", m |-> m]

\* an existence test that never finds the file
Exists_Never(file) == FALSE

\* os.path.exists(path)
Exists(file) == file.state # "absent"

\* np.load(path): the matrix, or the error of a file that is missing or cut
\* short
NpLoad(file) ==
    IF file.state = "complete" THEN [err |-> "none", m |-> file.m]
    ELSE IF file.state = "partial" THEN [err |-> "LoadError", m |-> << >>]
    ELSE [err |-> "FileNotFoundError", m |-> << >>]

\* A field of a csv row is a string: of digits (int() and float() read it),
\* a decimal such as "1.5" (float() reads it, int() does not), or any other
\* text (neither reads it).
IntField(v) == [kind |-> "int", val |-> v]

DecField(v) == [kind |-> "dec", val |-> v]

TxtField == [kind |-> "txt", val |-> 0]

\* int(s) and float(s) succeed
IntReads(f) == f.kind = "int"

FloatReads(f) == f.kind \in {"int", "dec"}

Header == <<TxtField, TxtField, TxtField>>

NoEdgeFile == [present |-> FALSE, lines |-> << >>]

EdgeFileOf(lines) == [present |-> TRUE, lines |-> lines]

\* dist_matrix[i] for an index i: negative indices count from the end
InRange(i, n) == -n <= i /\ i < n

NpIndex(i, n) == IF i < 0 THEN i + n ELSE i

\* np.zeros((n, n)) + float('inf')
InfMatrix(n) == [i \in 0 .. n - 1 |-> [j \in 0 .. n - 1 |-> Inf]]

ZeroMatrix(n) == [i \in 0 .. n - 1 |-> [j \in 0 .. n - 1 |-> 0]]

\* the exception the body of the row loop raises on `line`, or "none":
\*   start = int(line[0]); end = int(line[1])
\*   dist_matrix[start][end] = float(line[2]); dist_matrix[end][start] = ...
RowError(line, n) ==
    IF Len(line) < 1 THEN "IndexError"
    ELSE IF ~IntReads(line[1]) THEN "ValueError"
    ELSE IF Len(line) < 2 THEN "IndexError"
    ELSE IF ~IntReads(line[2]) THEN "ValueError"
    ELSE IF Len(line) < 3 THEN "IndexError"
    ELSE IF ~FloatReads(line[3]) THEN "ValueError"
    ELSE IF ~InRange(line[1].val, n) \/ ~InRange(line[2].val, n) THEN "IndexError"
    ELSE "none"

\* the source line of the row loop that raises it
RowErrorLine(line, n) ==
    IF Len(line) < 1 \/ ~IntReads(line[1]) THEN 68
    ELSE IF Len(line) < 2 \/ ~IntReads(line[2]) THEN 69
    ELSE 70

\* the two assignments of the row loop
RowStore(m, line, n) ==
    LET a == NpIndex(line[1].val, n)
        b == NpIndex(line[2].val, n)
        d == line[3].val
    IN  [i \in 0 .. n - 1 |-> [j \in 0 .. n - 1 |->
            IF (i = a /\ j = b) \/ (i = b /\ j = a) THEN d ELSE m[i][j]]]

\* `for line in file:` from line k on: the matrix, or the error and the line
\* it was raised at
RECURSIVE ParseRows(_, _, _, _)
ParseRows(m, lines, k, n) ==
    IF k > Len(lines) THEN [err |-> "none", row |-> 0, m |-> m]
    ELSE IF RowError(lines[k], n) # "none"
         THEN [err |-> RowError(lines[k], n), row |-> k, m |-> m]
         ELSE ParseRows(RowStore(m, lines[k], n), lines, k + 1, n)

\* a row loop that passes over the rows it cannot read
RECURSIVE ParseRows_SkipBad(_, _, _, _)
ParseRows_SkipBad(m, lines, k, n) ==
    IF k > Len(lines) THEN [err |-> "none", row |-> 0, m |-> m]
    ELSE IF RowError(lines[k], n) # "none"
         THEN ParseRows_SkipBad(m, lines, k + 1, n)
         ELSE ParseRows_SkipBad(RowStore(m, lines[k], n), lines, k + 1, n)

ParseEdgeList_SkipBad(lines, n) == ParseRows_SkipBad(InfMatrix(n), lines, 2, n)

\* an open() that takes a missing file for an empty one
OpenEdgeList_Lenient(file) == "none"

\* line 62: open(filepath + file[1], 'r')
OpenEdgeList(file) == IF file.present THEN "none" ELSE "FileNotFoundError"

\* lines 63-71: the first line is read and dropped, the others are parsed
ParseEdgeList(lines, n) == ParseRows(InfMatrix(n), lines, 2, n)

(***************************************************************************)
(* read_data: the semantic (DTW) distance                                  *)
(***************************************************************************)
\* the raw data file: the daily profile of each node, one sample long
Profile(d) == [i \in Nodes |-> IF i < d THEN 1 ELSE 0]

NoRaw == << >>

RawInputs == {NoRaw} \cup {Profile(d) : d \in 0 .. NumData}

\* fastdtw(a, b, radius=6)[0] of two one-sample sequences
FastDtw(a, b) == IF a > b THEN a - b ELSE b - a

\* lines 50-56: the upper triangle is computed, the lower one mirrors it
DtwDistance(data_mean) ==
    LET upper == [i \in Nodes |-> [j \in Nodes |->
                     IF i <= j THEN FastDtw(data_mean[i], data_mean[j]) ELSE 0]]
    IN  [i \in Nodes |-> [j \in Nodes |-> IF j < i THEN upper[j][i] ELSE upper[i][j]]]

(***************************************************************************)
(* read_data: sample, graph, embedding, similarity matrices                *)
(***************************************************************************)
\* np.arange(n)
Arange(n) == [k \in 1 .. n |-> k - 1]

\* lines 77-80; `sample` is what np.random.choice draws
SelectNodes(n, sample) == IF n > SampleSize THEN sample ELSE Arange(n)

\* train_node2vec and line 85: every node of the graph gets the vector the
\* training draws for it; a node that is not in the graph gets none
NodeEmbeddings(G, vectors) == [v \in G.nodes |-> vectors[v]]

\* the embedding vectors of the model have one coordinate
Coords == {0, 1}

\* np.linalg.norm(a - b) of two vectors of one coordinate
Norm(a, b) == IF a > b THEN a - b ELSE b - a

\* the test of line 92
HasCell(i, j, selected_nodes, node_embeddings) ==
    /\ InList(i, selected_nodes)
    /\ InList(j, selected_nodes)
    /\ i # j
    /\ i \in DOMAIN node_embeddings
    /\ j \in DOMAIN node_embeddings

\* line 93
DtwCell(i, j, node_embeddings) == Norm(node_embeddings[i], node_embeddings[j])

\* a line 94 that stores nothing
SpCell_Unset(i, j, node_embeddings) == 0

\* line 94
SpCell(i, j, node_embeddings) == Norm(node_embeddings[i], node_embeddings[j])

\* lines 87-94: both matrices start as zeros
Similarity(n, selected_nodes, node_embeddings) ==
    [dtw_matrix |-> [i \in 0 .. n - 1 |-> [j \in 0 .. n - 1 |->
         IF HasCell(i, j, selected_nodes, node_embeddings)
         THEN DtwCell(i, j, node_embeddings) ELSE 0]],
     sp_matrix |-> [i \in 0 .. n - 1 |-> [j \in 0 .. n - 1 |->
         IF HasCell(i, j, selected_nodes, node_embeddings)
         THEN SpCell(i, j, node_embeddings) ELSE 0]]]

(***************************************************************************)
(* read_data: one invocation                                               *)
(***************************************************************************)
NoRet == [dtw_matrix |-> << >>, sp_matrix |-> << >>]

\* an exception: its kind, the source line that raised it, the csv line read
NoErr == [kind |-> "none", line |-> 0, row |-> 0]

\* an invocation that has not started: its place, its local variables
\* (data, dist_matrix, the matrix about to be saved, selected_nodes,
\* node_embeddings), what it returned or raised, and the matrices it loaded
NoRun ==
    [pc |-> "idle", data |-> << >>, dist_matrix |-> << >>, saving |-> << >>,
     selected_nodes |-> << >>, node_embeddings |-> << >>, ret |-> NoRet,
     err |-> NoErr, dtwUsed |-> << >>, spUsed |-> << >>, parsed |-> FALSE]

Running(p) == run[p].pc \notin {"idle", "done", "failed"}

Raise(p, kind, line, row) ==
    [run EXCEPT ![p].pc = "failed", ![p].err = [kind |-> kind, line |-> line, row |-> row]]

\* lines 35-45: look the name up, load and normalise the raw data
Begin(p, registered, raw) ==
    /\ p \in callers
    /\ ~Running(p)
    /\ hist.runs < MaxRuns
    /\ run' = IF ~registered THEN [run EXCEPT ![p] = [NoRun EXCEPT !.pc = "failed",
                                      !.err = [kind |-> "KeyError", line |-> 36, row |-> 0]]]
              ELSE IF raw = NoRaw
                   THEN [run EXCEPT ![p] = [NoRun EXCEPT !.pc = "failed",
                                      !.err = [kind |-> "FileNotFoundError", line |-> 40, row |-> 0]]]
                   ELSE [run EXCEPT ![p] = [NoRun EXCEPT !.pc = "check_dtw", !.data = raw]]
    /\ hist' = [hist EXCEPT !.runs = @ + 1,
                            !.overlapped = @ \/ \E q \in Procs \ {p} : Running(q)]
    /\ UNCHANGED <<edgeFile, dtwFile, spFile, rng, callers, dsVars, ggVars>>

\* line 47
CheckDtw(p) ==
    /\ run[p].pc = "check_dtw"
    /\ run' = [run EXCEPT ![p].pc = IF Exists(dtwFile) THEN "dtw_load" ELSE "dtw_compute"]
    /\ UNCHANGED <<edgeFile, dtwFile, spFile, rng, callers, hist, dsVars, ggVars>>

\* lines 48-57, up to np.save opening the file
DtwCompute(p) ==
    /\ run[p].pc = "dtw_compute"
    /\ run' = [run EXCEPT ![p].pc = "dtw_write", ![p].saving = DtwDistance(run[p].data)]
    /\ dtwFile' = Partial
    /\ hist' = [hist EXCEPT !.dtwWrites = @ + 1]
    /\ UNCHANGED <<edgeFile, spFile, rng, callers, dsVars, ggVars>>

\* line 57: np.save has written the matrix
DtwWrite(p) ==
    /\ run[p].pc = "dtw_write"
    /\ run' = [run EXCEPT ![p].pc = "dtw_load"]
    /\ dtwFile' = Complete(run[p].saving)
    /\ hist' = [hist EXCEPT !.dtwFirst = IF @ = << >> THEN run[p].saving ELSE @]
    /\ UNCHANGED <<edgeFile, spFile, rng, callers, dsVars, ggVars>>

\* line 59
DtwLoad(p) ==
    /\ run[p].pc = "dtw_load"
    /\ LET r == NpLoad(dtwFile)
       IN  run' = IF r.err # "none" THEN Raise(p, r.err, 59, 0)
                  ELSE [run EXCEPT ![p].pc = "check_sp", ![p].dist_matrix = r.m,
                                   ![p].dtwUsed = r.m]
    /\ UNCHANGED <<edgeFile, dtwFile, spFile, rng, callers, hist, dsVars, ggVars>>

\* line 61
CheckSp(p) ==
    /\ run[p].pc = "check_sp"
    /\ run' = [run EXCEPT ![p].pc = IF Exists(spFile) THEN "sp_load" ELSE "sp_parse"]
    /\ UNCHANGED <<edgeFile, dtwFile, spFile, rng, callers, hist, dsVars, ggVars>>

\* lines 62-72, up to np.save opening the file: open the edge list, parse it
SpParse(p) ==
    /\ run[p].pc = "sp_parse"
    /\ LET r == ParseEdgeList(edgeFile.lines, NumNodes)
           ok == OpenEdgeList(edgeFile) = "none" /\ r.err = "none"
       IN  /\ run' = IF OpenEdgeList(edgeFile) # "none"
                     THEN Raise(p, OpenEdgeList(edgeFile), 62, 0)
                     ELSE IF r.err # "none"
                          THEN [Raise(p, r.err, RowErrorLine(edgeFile.lines[r.row], NumNodes),
                                      r.row)
                                  EXCEPT ![p].parsed = TRUE, ![p].dist_matrix = r.m]
                          ELSE [run EXCEPT ![p].pc = "sp_write", ![p].parsed = TRUE,
                                           ![p].dist_matrix = r.m, ![p].saving = r.m]
           /\ spFile' = IF ok THEN Partial ELSE spFile
           /\ hist' = IF ok THEN [hist EXCEPT !.spWrites = @ + 1] ELSE hist
    /\ UNCHANGED <<edgeFile, dtwFile, rng, callers, dsVars, ggVars>>

\* line 72: np.save has written the matrix
SpWrite(p) ==
    /\ run[p].pc = "sp_write"
    /\ run' = [run EXCEPT ![p].pc = "sp_load"]
    /\ spFile' = Complete(run[p].saving)
    /\ hist' = [hist EXCEPT !.spFirst = IF @ = << >> THEN run[p].saving ELSE @]
    /\ UNCHANGED <<edgeFile, dtwFile, rng, callers, dsVars, ggVars>>

\* line 74
SpLoad(p) ==
    /\ run[p].pc = "sp_load"
    /\ LET r == NpLoad(spFile)
       IN  run' = IF r.err # "none" THEN Raise(p, r.err, 74, 0)
                  ELSE [run EXCEPT ![p].pc = "embed", ![p].dist_matrix = r.m,
                                   ![p].spUsed = r.m]
    /\ UNCHANGED <<edgeFile, dtwFile, spFile, rng, callers, hist, dsVars, ggVars>>

\* a graph built from the DTW matrix
GraphInput_Dtw(p) == run[p].dtwUsed

\* line 82: the dist_matrix handed to generate_graph
GraphInput(p) == run[p].dist_matrix

\* lines 75-99.  The embedding trainer may refuse a graph with no node
\* (rejectsEmpty): it is a library, and its answer there is not the source's.
Embed(p, rejectsEmpty) ==
    /\ run[p].pc = "embed"
    /\ LET sel == SelectNodes(NumNodes, rng.sample)
           G == generate_graph(NumNodes, GraphInput(p), sel)
           E == NodeEmbeddings(G, rng.vectors)
       IN  run' = IF G.nodes = {} /\ rejectsEmpty
                  THEN [Raise(p, "RuntimeError", 83, 0) EXCEPT ![p].selected_nodes = sel]
                  ELSE [run EXCEPT ![p].pc = "done", ![p].selected_nodes = sel,
                                   ![p].node_embeddings = E,
                                   ![p].ret = Similarity(NumNodes, sel, E)]
    /\ UNCHANGED <<edgeFile, dtwFile, spFile, rng, callers, hist, dsVars, ggVars>>

NextRead ==
    \/ \E p \in Procs, registered \in BOOLEAN, raw \in RawInputs : Begin(p, registered, raw)
    \/ \E p \in Procs : CheckDtw(p)
    \/ \E p \in Procs : DtwCompute(p)
    \/ \E p \in Procs : DtwWrite(p)
    \/ \E p \in Procs : DtwLoad(p)
    \/ \E p \in Procs : CheckSp(p)
    \/ \E p \in Procs : SpParse(p)
    \/ \E p \in Procs : SpWrite(p)
    \/ \E p \in Procs : SpLoad(p)
    \/ \E p \in Procs, rejectsEmpty \in BOOLEAN : Embed(p, rejectsEmpty)

(***************************************************************************)
(* read_data: the inputs                                                   *)
(***************************************************************************)
\* rows that parse: an edge between two nodes, a self-loop, a decimal distance,
\* an index counted from the end, a row with a fourth column
GoodRows ==
    {<<IntField(i), IntField(i + 1), IntField(1 + (i % 2))>> : i \in 0 .. NumNodes - 2}
    \cup {<<IntField(0), IntField(0), IntField(1)>>,
          <<IntField(0), IntField(1), DecField(2)>>,
          <<IntField(-1), IntField(0), IntField(1)>>,
          <<IntField(0), IntField(1), IntField(1), IntField(7)>>,
          <<IntField(1), IntField(2), IntField(1), TxtField>>}

\* rows that do not: too few columns, text or a decimal where a number or an
\* integer is read, a node that is not in the matrix
BadRows ==
    {<< >>,
     <<IntField(0), IntField(1)>>,
     <<TxtField, IntField(1), IntField(1)>>,
     <<IntField(0), DecField(1), IntField(1)>>,
     <<IntField(0), IntField(1), TxtField>>,
     <<IntField(0), IntField(NumNodes), IntField(1)>>}

RowLists(rows) == UNION {[1 .. k -> rows] : k \in 0 .. MaxRows}

\* every edge-list file of the model: none, an empty one, a header and rows
AllEdgeFiles ==
    {NoEdgeFile, EdgeFileOf(<< >>)}
    \cup {EdgeFileOf(<<Header>> \o r) : r \in RowLists(GoodRows \cup BadRows)}

Edge01 == <<IntField(0), IntField(1), IntField(1)>>

Edge12 == <<IntField(1), IntField(2), IntField(2)>>

Edge02 == <<IntField(0), IntField(2), IntField(1)>>

FewEdgeFiles ==
    {NoEdgeFile,
     EdgeFileOf(<<Header, Edge01>>),
     EdgeFileOf(<<Header, Edge01, <<IntField(0), IntField(1)>>>>)}

GraphEdgeFiles ==
    {EdgeFileOf(<<Header>>),
     EdgeFileOf(<<Header, Edge01>>),
     EdgeFileOf(<<Header, Edge01, Edge12>>),
     EdgeFileOf(<<Header, <<IntField(0), IntField(0), IntField(1)>>, Edge12>>)}

\* cache files left by earlier runs, on other data and another edge list
OldDtwFiles == {Absent, Complete(DtwDistance(Profile(1)))}

OldSpFiles == {Absent, Complete(ParseEdgeList(<<Header, Edge12>>, NumNodes).m)}

AllRngs ==
    [sample : {s \in NodeLists(NumNodes) : Len(s) = Min(SampleSize, NumNodes)},
     vectors : [Nodes -> Coords]]

FewRngs == {[sample |-> Arange(Min(SampleSize, NumNodes)),
             vectors |-> [v \in Nodes |-> v % 2]]}

\* the runs started and whether two ever overlapped; for each cache file,
\* whether it was there at the start, how often np.save was called on it, and
\* the first content it ever held
HistOf(dtw, sp) ==
    [runs |-> 0, overlapped |-> FALSE,
     dtwOld |-> Exists(dtw), dtwWrites |-> 0, dtwFirst |-> dtw.m,
     spOld |-> Exists(sp), spWrites |-> 0, spFirst |-> sp.m]

ReadIdle ==
    /\ edgeFile = NoEdgeFile
    /\ dtwFile = Absent
    /\ spFile = Absent
    /\ rng = [sample |-> << >>, vectors |-> << >>]
    /\ callers = {}
    /\ run = [p \in Procs |-> NoRun]
    /\ hist = HistOf(Absent, Absent)

InitRead(edgeFiles, dtwFiles, spFiles, rngs) ==
    /\ edgeFile \in edgeFiles
    /\ dtwFile \in dtwFiles
    /\ spFile \in spFiles
    /\ rng \in rngs
    /\ run = [p \in Procs |-> NoRun]
    /\ hist = HistOf(dtwFile, spFile)
    /\ DatasetIdle
    /\ GraphIdle

\* two callers, whose runs for the one dataset name may overlap
InitConcurrent ==
    /\ callers = Procs
    /\ InitRead(FewEdgeFiles, OldDtwFiles, OldSpFiles, FewRngs)

\* one caller, so one run after the other: every state of the cache files
InitSerial ==
    /\ callers = {1}
    /\ InitRead(FewEdgeFiles, OldDtwFiles, OldSpFiles, FewRngs)

\* one caller, every edge-list file, no spatial cache yet
InitParse ==
    /\ callers = {1}
    /\ InitRead(AllEdgeFiles, {Absent}, {Absent}, FewRngs)

\* one caller, every random draw
InitEmbed ==
    /\ callers = {1}
    /\ InitRead(GraphEdgeFiles, OldDtwFiles, {Absent}, AllRngs)

SpecConcurrent == InitConcurrent /\ [][NextRead]_vars

SpecSerial == InitSerial /\ [][NextRead]_vars

SpecParse == InitParse /\ [][NextRead]_vars

SpecEmbed == InitEmbed /\ [][NextRead]_vars

-----------------------------------------------------------------------------
(***************************************************************************)
(* The graph world: a matrix and a node list, then generate_graph.         *)
(***************************************************************************)
InitGraph ==
    /\ gDist \in SparseMatrices(NumNodes)
    /\ gSel \in NodeLists(NumNodes)
    /\ gOut = NoGraph
    /\ DatasetIdle
    /\ ReadIdle

CallGenerateGraph ==
    /\ gOut = NoGraph
    /\ gOut' = generate_graph(NumNodes, gDist, gSel)
    /\ UNCHANGED <<gDist, gSel>>
    /\ UNCHANGED <<dsVars, rdVars>>

NextGraph == CallGenerateGraph

SpecGraph == InitGraph /\ [][NextGraph]_vars

-----------------------------------------------------------------------------
(***************************************************************************)
(* The dataset world: a tensor, then one construction, then reads.         *)
(***************************************************************************)
InitDataset ==
    /\ \E T \in 0 .. MaxT : data = Tensor(T)
    /\ his \in 1 .. MaxH
    /\ pred \in 1 .. MaxP
    /\ ds = [s \in Slots |-> NoDs]
    /\ gen = NoGen
    /\ out = NoOut
    /\ GraphIdle
    /\ ReadIdle

Fresh == gen = NoGen /\ \A s \in Slots : ~ds[s].built

\* a caller builds MyDataset(data, split_start, split_end, his, pred) itself
NewDataset(split_start, split_end) ==
    /\ Fresh
    /\ ds' = [ds EXCEPT !["direct"] =
                 MyDatasetInit(data, ToFloat(split_start), ToFloat(split_end), his, pred)]
    /\ gen' = [NoGen EXCEPT !.call = "MyDataset", !.split_start = split_start,
                            !.split_end = split_end, !.status = "ok"]
    /\ UNCHANGED <<data, his, pred, out>>
    /\ UNCHANGED <<ggVars, rdVars>>

\* generate_dataset(data, args): the three datasets and their loaders, built
\* in order; the first loader that cannot be built raises, and the caller
\* gets nothing
GenerateDataset(train_ratio, valid_ratio, strict) ==
    /\ Fresh
    /\ LET a == SplitArgs(Rows(data), train_ratio, valid_ratio)
           d == [s \in GenSlots |-> MyDatasetInit(data, a[s][1], a[s][2], his, pred)]
           ok == \A s \in GenSlots : LoaderBuilt(d[s], strict)
       IN  /\ ds' = [s \in Slots |-> IF ok /\ s \in GenSlots THEN d[s] ELSE NoDs]
           /\ gen' = [NoGen EXCEPT !.call = "generate_dataset",
                                   !.train_ratio = train_ratio,
                                   !.valid_ratio = valid_ratio,
                                   !.status = IF ok THEN "ok" ELSE "ValueError"]
    /\ UNCHANGED <<data, his, pred, out>>
    /\ UNCHANGED <<ggVars, rdVars>>

\* dataset.__len__()
CallLen(s) ==
    /\ ds[s].built
    /\ out' = [NoOut EXCEPT !.op = "len", !.slot = s, !.len = MyDatasetLen(ds[s])]
    /\ UNCHANGED <<data, his, pred, ds, gen>>
    /\ UNCHANGED <<ggVars, rdVars>>

\* dataset[index]
CallGetItem(s, index) ==
    /\ ds[s].built
    /\ LET e == MyDatasetGetItem(ds[s], index)
       IN  out' = [NoOut EXCEPT !.op = "getitem", !.slot = s, !.index = index,
                                !.x = e.x, !.y = e.y]
    /\ UNCHANGED <<data, his, pred, ds, gen>>
    /\ UNCHANGED <<ggVars, rdVars>>

NextDataset ==
    \/ \E a \in 0 .. MaxT, b \in 0 .. MaxT :
          a <= b /\ b <= Rows(data) /\ NewDataset(a, b)
    \/ \E tr \in 0 .. RatioDen, vr \in 0 .. RatioDen, strict \in BOOLEAN :
          GenerateDataset(tr, vr, strict)
    \/ \E s \in Slots : CallLen(s)
    \/ \E s \in Slots, k \in 0 .. MaxT : CallGetItem(s, k)

SpecDataset == InitDataset /\ [][NextDataset]_vars

-----------------------------------------------------------------------------
(***************************************************************************)
(* Claims about the windowed dataset.                                      *)
(***************************************************************************)
\* the example at offset k of a dataset cut from row `start` on holds his
\* history rows and pred prediction rows, the latter of channel 0 only
ExampleIs(e, start, k, H, P) ==
    \A n \in 0 .. DsNodes - 1 :
        /\ DOMAIN e.x[n] = 0 .. H - 1
        /\ \A h \in 0 .. H - 1 : \A f \in 0 .. DsFeat - 1 :
               e.x[n][h][f] = Cell(start + k + h, n, f)
        /\ DOMAIN e.y[n] = 0 .. P - 1
        /\ \A p \in 0 .. P - 1 : e.y[n][p] = Cell(start + k + H + p, n, 0)

\* T = 100, H = 12, P = 3 over the whole tensor: 86 examples, example 0 is
\* rows [0, 12) and [12, 15)
C1_Example ==
    LET d == MyDatasetInit(Tensor(100), ToFloat(0), ToFloat(100), 12, 3)
    IN  /\ MyDatasetLen(d) = 86
        /\ ExampleIs(MyDatasetGetItem(d, 0), 0, 0, 12, 3)

\* C1: a MyDataset over rows [start, end) reports (end - start) - H - P + 1
\* examples, and the example at every offset k below that length is rows
\* [k, k+H) of the slice and rows [k+H, k+H+P) of channel 0 of the slice.
C1_LenAndWindows ==
    /\ C1_Example
    /\ gen.call = "MyDataset" =>
          LET n == (gen.split_end - gen.split_start) - his - pred + 1
          IN  /\ out.op = "len" => out.len = n
              /\ (out.op = "getitem" /\ out.index < n) =>
                     ExampleIs(out, gen.split_start, out.index, his, pred)

C1_Witness ==
    /\ gen.call = "MyDataset"
    /\ gen.split_start > 0
    /\ gen.split_end < Rows(data)
    /\ out.op = "getitem"
    /\ out.index > 0
    /\ out.index = (gen.split_end - gen.split_start) - his - pred

\* the row ranges the claim names, computed from the ratios
ClaimRanges(T, tr, vr) ==
    [train |-> <<0, (T * tr) \div RatioDen>>,
     valid |-> <<(T * tr) \div RatioDen, (T * (tr + vr)) \div RatioDen>>,
     test  |-> <<(T * (tr + vr)) \div RatioDen, T>>]

\* the rows a dataset holds are rows [r[1], r[2]) of the tensor
HoldsRows(self, r) ==
    /\ Rows(self.data) = r[2] - r[1]
    /\ \A i \in 0 .. r[2] - r[1] - 1 : self.data[i] = data[r[1] + i]

\* three ranges are contiguous, do not overlap and cover [0, T) once
Partition(r, T) ==
    /\ r.train[1] = 0
    /\ r.train[1] <= r.train[2]
    /\ r.train[2] = r.valid[1]
    /\ r.valid[1] <= r.valid[2]
    /\ r.valid[2] = r.test[1]
    /\ r.test[1] <= r.test[2]
    /\ r.test[2] = T
    /\ \A t \in 0 .. T - 1 :
          Cardinality({s \in GenSlots : r[s][1] <= t /\ t < r[s][2]}) = 1

\* the rows MyDataset keeps when it is handed the split arguments
CodeRanges(T, tr, vr) ==
    LET a == SplitArgs(T, tr, vr)
    IN  [s \in GenSlots |->
            <<SliceBound(PyInt(a[s][1]), T), SliceBound(PyInt(a[s][2]), T)>>]

\* 0.6 / 0.2 / 0.2 on 100 rows
C2_Example ==
    CodeRanges(100, 3 * RatioScale, RatioScale) =
        [train |-> <<0, 60>>, valid |-> <<60, 80>>, test |-> <<80, 100>>]

\* C2: with train_ratio >= 0, valid_ratio >= 0 and their sum at most 1, the
\* three row ranges generate_dataset hands to its datasets are [0, int(T*tr)),
\* [int(T*tr), int(T*(tr+vr))) and [int(T*(tr+vr)), T): contiguous, disjoint,
\* and covering every row of [0, T) exactly once.
C2_SplitsPartition ==
    (gen.call = "generate_dataset" /\ gen.train_ratio + gen.valid_ratio <= RatioDen) =>
        LET T == Rows(data)
            r == CodeRanges(T, gen.train_ratio, gen.valid_ratio)
        IN  /\ r = ClaimRanges(T, gen.train_ratio, gen.valid_ratio)
            /\ Partition(r, T)
            /\ gen.status = "ok" => \A s \in GenSlots : HoldsRows(ds[s], r[s])

C2_Witness ==
    /\ gen.call = "generate_dataset"
    /\ gen.status = "ok"
    /\ gen.train_ratio + gen.valid_ratio < RatioDen
    /\ \A s \in GenSlots : Rows(ds[s].data) > 0
    /\ (Rows(data) * gen.train_ratio) % RatioDen # 0

\* C9 (as claimed): a split with fewer than H + P rows is never read: neither
\* a length nor an example ever comes out of it (the read fails instead).
C9_ShortSplitFails ==
    out.op # "none" => Rows(ds[out.slot].data) >= his + pred

-----------------------------------------------------------------------------
(***************************************************************************)
(* Claims about generate_graph.                                            *)
(***************************************************************************)
Symmetric(m, n) == \A i, j \in 0 .. n - 1 : m[i][j] = m[j][i]

\* an edge {i, j} exactly for the pairs of the subset at a finite distance,
\* weighted by that distance
EdgesAreFinitePairs(G, m, list, n) ==
    /\ \A v \in G.nodes : InList(v, list)
    /\ \A i, j \in 0 .. n - 1 :
          /\ {i, j} \in DOMAIN G.weight <=>
                (InList(i, list) /\ InList(j, list) /\ m[i][j] # Inf)
          /\ {i, j} \in DOMAIN G.weight => G.weight[{i, j}] = m[i][j]

\* four nodes, finite distances between 0 and 1 and between 2 and 3 only
Example4 ==
    [i \in 0 .. 3 |-> [j \in 0 .. 3 |->
        IF {i, j} = {0, 1} THEN 1 ELSE IF {i, j} = {2, 3} THEN 2 ELSE Inf]]

C5_Example ==
    LET G == generate_graph(4, Example4, <<0, 1, 2, 3>>)
    IN  /\ DOMAIN G.weight = {{0, 1}, {2, 3}}
        /\ Component(G, {0}) = {0, 1}
        /\ Component(G, {2}) = {2, 3}

\* C5 (as claimed): for every distance matrix and every node subset, the graph
\* has an edge {i, j} if and only if i and j are in the subset and
\* dist_matrix[i, j] is finite, with that distance as its weight.
C5_AnyMatrix ==
    gOut # NoGraph => EdgesAreFinitePairs(gOut, gDist, gSel, NumNodes)

\* C5 (amended): the claim holds for every symmetric distance matrix; for any
\* matrix the edge {i, j} exists if and only if both nodes are in the subset
\* and dist_matrix[i, j] or dist_matrix[j, i] is finite, and its weight is one
\* of the finite distances of the two directions.
C5_SymmetricMatrix ==
    /\ C5_Example
    /\ gOut # NoGraph =>
          /\ Symmetric(gDist, NumNodes) => EdgesAreFinitePairs(gOut, gDist, gSel, NumNodes)
          /\ \A v \in gOut.nodes : InList(v, gSel)
          /\ \A i, j \in Nodes :
                /\ {i, j} \in DOMAIN gOut.weight <=>
                      /\ InList(i, gSel)
                      /\ InList(j, gSel)
                      /\ (gDist[i][j] # Inf \/ gDist[j][i] # Inf)
                /\ {i, j} \in DOMAIN gOut.weight =>
                      gOut.weight[{i, j}] \in {gDist[i][j], gDist[j][i]} \ {Inf}

C5_Witness ==
    /\ gOut # NoGraph
    /\ Symmetric(gDist, NumNodes)
    /\ Len(gSel) = 2
    /\ Cardinality(DOMAIN gOut.weight) = 1
    /\ \E i, j \in Nodes : i # j /\ gDist[i][j] # Inf /\ {i, j} \in DOMAIN gOut.weight

-----------------------------------------------------------------------------
(***************************************************************************)
(* Claims about read_data and its cache files.                             *)
(***************************************************************************)
\* C3: when the runs for a dataset name do not overlap, each cache file is
\* computed and written only by a run that found it absent, at most once;
\* once it exists it is never written again, and every run uses the matrix
\* the file first held.
C3_CacheComputedOnce ==
    /\ hist.dtwWrites <= 1
    /\ hist.spWrites <= 1
    /\ hist.dtwOld => hist.dtwWrites = 0
    /\ hist.spOld => hist.spWrites = 0
    /\ dtwFile.state = "complete" => dtwFile.m = hist.dtwFirst
    /\ spFile.state = "complete" => spFile.m = hist.spFirst
    /\ \A p \in Procs :
          /\ run[p].dtwUsed # << >> => run[p].dtwUsed = hist.dtwFirst
          /\ run[p].spUsed # << >> => run[p].spUsed = hist.spFirst
          /\ run[p].pc \in {"dtw_compute", "dtw_write"} => hist.dtwFirst = << >>
          /\ run[p].pc \in {"sp_parse", "sp_write"} => hist.spFirst = << >>

C3_Witness ==
    /\ hist.runs >= 2
    /\ hist.dtwWrites = 1
    /\ hist.spWrites = 1
    /\ run[1].pc = "done"
    /\ run[1].dtwUsed # DtwDistance(run[1].data)

\* C4: the existence test and the write of a cache file are not one atomic
\* step: a cache file is computed more than once, or loaded while it is being
\* written, only when two runs overlapped (the witness is the state where
\* both have happened).
C4_TwiceOnlyWhenOverlapping ==
    (\/ hist.dtwWrites > 1
     \/ hist.spWrites > 1
     \/ \E p \in Procs : run[p].err.kind = "LoadError") => hist.overlapped

C4_Witness ==
    /\ ~hist.dtwOld
    /\ hist.dtwWrites = 2
    /\ hist.spWrites = 2
    /\ run[1].dtwUsed # << >>
    /\ run[2].dtwUsed # << >>
    /\ \E p \in Procs : run[p].err = [kind |-> "LoadError", line |-> 74, row |-> 0]

\* C7 (as claimed): whatever the state of the cache files, a run with a
\* registered name fails when the edge-list file is absent.
C7_MissingEdgeListAlwaysFails ==
    ~edgeFile.present => \A p \in Procs : run[p].pc # "done"

\* C7 (amended): when the edge-list file and the spatial cache file are both
\* absent, a run with a registered name fails with a missing-file error and
\* returns nothing; when the spatial cache file exists, the edge list is not
\* opened and its absence raises nothing.
C7_MissingEdgeListFailsWithoutCache ==
    \A p \in Procs :
        /\ (~edgeFile.present /\ ~hist.spOld) =>
              /\ run[p].pc # "done"
              /\ run[p].ret = NoRet
              /\ run[p].pc \notin {"sp_write", "sp_load", "embed"}
              /\ (run[p].pc = "failed" /\ run[p].err.kind # "KeyError") =>
                     run[p].err.kind = "FileNotFoundError"
        /\ hist.spOld => (~run[p].parsed /\ run[p].err.line # 62)

C7_Witness ==
    /\ ~edgeFile.present
    /\ ~hist.spOld
    /\ run[1].err = [kind |-> "FileNotFoundError", line |-> 62, row |-> 0]

\* a row the claim calls malformed: not three columns, or a field that is
\* not a number
ClaimedMalformed(line) ==
    Len(line) # 3 \/ \E k \in 1 .. Len(line) : ~FloatReads(line[k])

\* a row with fewer than three columns, or whose first two fields are not
\* integers, or whose third is not a number
Malformed(line) ==
    \/ Len(line) < 3
    \/ ~IntReads(line[1])
    \/ ~IntReads(line[2])
    \/ ~FloatReads(line[3])

\* a row that names a node outside the matrix
OutOfMatrix(line) ==
    ~Malformed(line) /\ (~InRange(line[1].val, NumNodes) \/ ~InRange(line[2].val, NumNodes))

\* the csv lines after the header that satisfy Bad
LinesThat(Bad(_)) == {k \in 2 .. Len(edgeFile.lines) : Bad(edgeFile.lines[k])}

Unreadable(line) == Malformed(line) \/ OutOfMatrix(line)

\* a run that parsed the edge list failed there and left nothing behind
ParseFailed(p) ==
    /\ run[p].pc = "failed"
    /\ run[p].err.line \in 68 .. 70
    /\ run[p].ret = NoRet
    /\ spFile = Absent
    /\ hist.spWrites = 0

\* C8 (as claimed): with no spatial cache, a row that has not three columns
\* or holds a non-numeric field makes read_data fail, write no cache file and
\* return nothing.
C8_AnyMalformedRowFails ==
    (edgeFile.present /\ LinesThat(ClaimedMalformed) # {}) =>
        \A p \in Procs : run[p].parsed => ParseFailed(p)

\* C8 (amended): with no spatial cache, a row after the header that has fewer
\* than three columns, or whose first two fields are not integers or whose
\* third is not a number, makes read_data fail at the first row it cannot
\* read, write no cache file and return nothing; a row with more than three
\* columns is read by its first three.
C8_MalformedRowFails ==
    (edgeFile.present /\ LinesThat(Malformed) # {}) =>
        \A p \in Procs : run[p].parsed =>
            /\ ParseFailed(p)
            /\ run[p].err.kind \in {"ValueError", "IndexError"}
            /\ run[p].err.row \in LinesThat(Unreadable)
            /\ \A k \in LinesThat(Unreadable) : run[p].err.row <= k

C8_Witness ==
    /\ run[1].parsed
    /\ run[1].err = [kind |-> "ValueError", line |-> 68, row |-> 3]
    /\ Len(edgeFile.lines[2]) > 3
    /\ run[1].dist_matrix # InfMatrix(NumNodes)

\* the embedding distance of nodes i and j in a table of embeddings
EmbeddingDistance(i, j, E) == IF E[i] > E[j] THEN E[i] - E[j] ELSE E[j] - E[i]

\* C6: the two matrices read_data returns are N x N and equal cell by cell;
\* cell (i, j) is the embedding distance of i and j when i # j, both are in
\* the subset and both have an embedding, and zero otherwise.
C6_SimilarityCells ==
    \A p \in Procs : run[p].pc = "done" =>
        LET S == run[p].selected_nodes
            E == run[p].node_embeddings
            r == run[p].ret
        IN  /\ DOMAIN r.dtw_matrix = Nodes
            /\ DOMAIN r.sp_matrix = Nodes
            /\ \A i \in Nodes :
                  /\ DOMAIN r.dtw_matrix[i] = Nodes
                  /\ DOMAIN r.sp_matrix[i] = Nodes
            /\ \A i, j \in Nodes :
                  /\ r.dtw_matrix[i][j] = r.sp_matrix[i][j]
                  /\ r.dtw_matrix[i][j] =
                        IF /\ i # j
                           /\ InList(i, S)
                           /\ InList(j, S)
                           /\ i \in DOMAIN E
                           /\ j \in DOMAIN E
                        THEN EmbeddingDistance(i, j, E)
                        ELSE 0

C6_Witness ==
    /\ run[1].pc = "done"
    /\ \E i \in Nodes : ~InList(i, run[1].selected_nodes) /\ rng.vectors[i] # 0
    /\ \E i, j \in Nodes : run[1].ret.sp_matrix[i][j] # 0

====
